---- MODULE Spec2Model ----
(***************************************************************************)
(* Model of the ExFetch class of src/exfetch.ts: the constructor's         *)
(* validation of the retry / paginate options, the retry loop of           *)
(* ExFetch.fetch and the page loop of ExFetch.fetchPaginate.               *)
(*                                                                         *)
(* JavaScript numbers that can be undefined, NaN or Infinity are records   *)
(* [k, v]; header values are records [kind, n] standing for the string     *)
(* the server sent.  Every await of the source is a position of pc.        *)
(***************************************************************************)
EXTENDS Integers, Sequences, FiniteSets, TLC

\* ---------------------------------------------------------------- bounds
MaxAttempts == 2
MaxPage == 3
MaxUrl == 2

\* ------------------------------------------------------ JavaScript values
Undefined == [k |-> "undefined", v |-> 0]
Infinity == [k |-> "Infinity", v |-> 0]
NaN == [k |-> "NaN", v |-> 0]
Num(n) == [k |-> "number", v |-> n]

Min(a, b) == IF a <= b THEN a ELSE b
Max(a, b) == IF a >= b THEN a ELSE b

RECURSIVE Pow(_, _)
Pow(m, n) == IF n = 0 THEN 1 ELSE m * Pow(m, n - 1)

\* x ??= y
NullishAssign(x, y) == IF x = Undefined THEN y ELSE x

\* Math.max(a, d) for a finite a: NaN is contagious
MathMax(a, d) == IF d.k = "NaN" THEN NaN ELSE Num(Max(a, d.v))

\* ---------------------------------------------------------- header values
Null == [kind |-> "null", n |-> 0]
Digits(s) == [kind |-> "digits", n |-> s]
HttpDate(t) == [kind |-> "date", n |-> t]
Garbage == [kind |-> "garbage", n |-> 0]

Now == 100000

\* /^[1-9]\d*$/u.test(value)
TestDigits(value) == value.kind = "digits"
\* Number(value) * 1000
SecondsToMs(value) == Num(value.n * 1000)
\* Date.parse(value) - Date.now(): Date.parse returns NaN, it never throws
DateParseMinusNow(value) == IF value.kind = "date" THEN Num(value.n - Now) ELSE NaN

\* ------------------------------------------------------------- constants
statusCodeRetryable == {408, 429, 500, 502, 503, 504, 506, 507, 508}
DelayFloor == 1000

retryDefault == [attempts |-> 4, backoffMultiplier |-> 2, condition |-> "undefined",
                 delayMaximum |-> 60000, delayMinimum |-> 1000, jitter |-> 1]
paginateDefault == [count |-> Infinity, linkUpNextPage |-> "undefined", pause |-> 0,
                    throwOnInvalidHeaderLink |-> TRUE]
timeoutDefault == Infinity

\* --------------------------------------------------------------- options
\* a custom condition is named by what it computes
ConditionApply(c, status, retryable) ==
    CASE c = "always" -> TRUE
      [] c = "inverse" -> ~retryable
      [] OTHER -> retryable

\* #checkPaginateOptions: TRUE when it does not throw
checkPaginateOptions(o) ==
    /\ \/ o.count = Undefined
       \/ o.count = Infinity
       \/ o.count.k = "number" /\ o.count.v > 0
    /\ \/ o.pause = Undefined
       \/ o.pause.k = "number" /\ o.pause.v >= 0

\* { ...base, ...over }: a field of over that is present replaces base's
SpreadPaginate(base, over) ==
    [count |-> IF over.count = Undefined THEN base.count ELSE over.count,
     linkUpNextPage |-> IF over.linkUpNextPage = "undefined" THEN base.linkUpNextPage
                        ELSE over.linkUpNextPage,
     pause |-> IF over.pause = Undefined THEN base.pause ELSE over.pause.v,
     throwOnInvalidHeaderLink |->
         IF over.throwOnInvalidHeaderLink = "undefined" THEN base.throwOnInvalidHeaderLink
         ELSE over.throwOnInvalidHeaderLink = "true"]

\* the constructor: ok is FALSE when it throws, else the instance's fields
Constructor(options) ==
    LET r == options.retry
        attemptsOk == r.attempts = Undefined \/ (r.attempts.k = "number" /\ r.attempts.v >= 0)
        multiplierOk == r.backoffMultiplier = Undefined
                        \/ (r.backoffMultiplier.k = "number" /\ r.backoffMultiplier.v >= 1)
        maximumOk == r.delayMaximum = Undefined
                     \/ (r.delayMaximum.k = "number" /\ r.delayMaximum.v > 0)
        delayMaximum == IF r.delayMaximum = Undefined THEN retryDefault.delayMaximum
                        ELSE r.delayMaximum.v
        minimumOk == r.delayMinimum = Undefined
                     \/ (r.delayMinimum.k = "number" /\ r.delayMinimum.v > 0
                         /\ r.delayMinimum.v < delayMaximum)
        jitterOk == r.jitter = Undefined
                    \/ (r.jitter.k = "number" /\ r.jitter.v >= 0 /\ r.jitter.v <= 1)
        timeoutOk == \/ options.timeout = Undefined
                     \/ options.timeout = Infinity
                     \/ options.timeout.k = "number" /\ options.timeout.v > 0
    IN  [ok |-> /\ checkPaginateOptions(options.paginate)
                /\ attemptsOk /\ multiplierOk /\ maximumOk /\ minimumOk /\ jitterOk
                /\ timeoutOk,
         event |-> options.event,
         paginate |-> SpreadPaginate(paginateDefault, options.paginate),
         retry |-> [attempts |-> IF r.attempts = Undefined THEN retryDefault.attempts
                                 ELSE r.attempts.v,
                    backoffMultiplier |-> IF r.backoffMultiplier = Undefined
                                          THEN retryDefault.backoffMultiplier
                                          ELSE r.backoffMultiplier.v,
                    condition |-> r.condition,
                    delayMaximum |-> delayMaximum,
                    delayMinimum |-> IF r.delayMinimum = Undefined
                                     THEN retryDefault.delayMinimum
                                     ELSE r.delayMinimum.v,
                    jitter |-> IF r.jitter = Undefined THEN retryDefault.jitter
                               ELSE r.jitter.v],
         timeout |-> IF options.timeout = Undefined THEN timeoutDefault ELSE options.timeout]

\* ------------------------------------------------- collaborators, inputs
\* exponentialBackoffWithJitter: the values it may return.  The exponential
\* value is min(cap, base * multiplier^attempt); the jitter factor spreads
\* the draw between that value (jitter 0) and [0, value] (jitter 1).
ExponentialBackoffWithJitter(attempt, base, cap, jitter, multiplier) ==
    LET exponential == Min(cap, base * Pow(multiplier, attempt))
        low == exponential - exponential * jitter
    IN  {low, (low + exponential) \div 2, exponential}

\* what the transport may answer
Statuses == {200, 404, 500}
RetryAfterValues == {Null, Digits(2), Garbage, HttpDate(Now - 5000), HttpDate(Now + 5000)}
RateLimitResetValues == {Null, Digits(3)}
Responses == [status : Statuses, retryAfter : RetryAfterValues,
              xRateLimitReset : RateLimitResetValues]
NoResponse == [status |-> 0, retryAfter |-> Null, xRateLimitReset |-> Null]
NoOther == [pc |-> "idle", attempt |-> 0, status |-> 0, delayTime |-> Undefined,
            calls |-> <<>>]
NoPayload == [attemptCurrent |-> 0, attempts |-> 0, retryAfter |-> Undefined, statusCode |-> 0]

\* what the caller may pass to the constructor
AttemptsOptions == {Num(n) : n \in 0..MaxAttempts}
MultiplierOptions == {Undefined, Num(1)}
ConditionOptions == {"undefined", "always", "inverse"}
DelayMaximumOptions == {Undefined, Num(0), Num(500)}
DelayMinimumOptions == {Undefined, Num(100), Num(2000)}
JitterOptions == {Num(0), Num(1)}
TimeoutOptions == {Undefined, Num(30000)}
RetryOptions == [attempts : AttemptsOptions, backoffMultiplier : MultiplierOptions,
                 condition : ConditionOptions, delayMaximum : DelayMaximumOptions,
                 delayMinimum : DelayMinimumOptions, jitter : JitterOptions]
NoUrl == 0
FirstUrl == 1
Urls == 1..MaxUrl
CountOptions == {Undefined, Num(1), Num(2)}
PauseOptions == {Undefined, Num(10)}
PaginateOptions == [count : CountOptions, linkUpNextPage : {"undefined", "function"},
                    pause : PauseOptions, throwOnInvalidHeaderLink : {"undefined", "false"}]
PaginateAttemptsOptions == {Num(0), Num(1)}
NoPaginateOptions == [count |-> Undefined, linkUpNextPage |-> "undefined", pause |-> Undefined,
                      throwOnInvalidHeaderLink |-> "undefined"]

OverrideOptions == {NoPaginateOptions,
                    [NoPaginateOptions EXCEPT !.count = Num(0)],
                    [NoPaginateOptions EXCEPT !.count = Num(1)],
                    [NoPaginateOptions EXCEPT !.throwOnInvalidHeaderLink = "true"]}

\* ------------------------------------------------------------------ state
VARIABLES
    retry,              \* this.#retry
    paginate,           \* this.#paginate
    timeout,            \* this.#timeout
    event,              \* this.#event is an EventEmitter
    pc,                 \* position of the running call
    mode,               \* the top-level call: "fetch" or "paginate"
    signal,             \* the AbortSignal in force: "undefined", "caller", "timeout"
    attempt,            \* fetch: let attempt
    response,           \* fetch: let response
    delayTime,          \* fetch: let delayTime
    eventRetryPayload,  \* fetch: let eventRetryPayload
    error,              \* what the call threw, "none" while it has not
    calls,              \* history: statuses the transport answered in this fetch
    waits,              \* history: number of delay() calls of this fetch
    emitted,            \* history: number of "retry" events the sink received in this fetch
    optionsResolve,     \* fetchPaginate: let optionsResolve
    page,               \* fetchPaginate: let page
    uri,                \* fetchPaginate: let uri, NoUrl when undefined
    uriLookUp,          \* fetchPaginate: let uriLookUp
    responses,          \* fetchPaginate: let responses, as [url, status]
    requested,          \* history: the URLs this.fetch was called with
    linkParsed,         \* history: the HTTPHeaderLink.parse calls, as [url, kind]
    errorUrl,           \* the URL the thrown SyntaxError names, NoUrl when none
    fetchSignals,       \* history: AbortSignal.timeout calls made by fetch in this call
    paginateSignals,    \* history: AbortSignal.timeout calls made by fetchPaginate
    other,              \* a second fetch call running on the same instance: its
                        \* position, attempt, delayTime, last status and history
    optionsOverride,    \* fetchPaginate: the optionsOverride argument of the call
    overridden          \* history: an earlier call on the instance had an override

vars == <<retry, paginate, timeout, event, pc, mode, signal, attempt, response,
          delayTime, eventRetryPayload, error, calls, waits, emitted, optionsResolve,
          page, uri, uriLookUp, responses, requested, linkParsed, errorUrl,
          fetchSignals, paginateSignals, other, optionsOverride, overridden>>

pagination == <<optionsResolve, page, uri, uriLookUp, responses, requested, linkParsed,
                errorUrl, paginateSignals, overridden>>

instance == <<retry, paginate, timeout, event>>

InitWith(options) ==
    LET c == Constructor(options)
    IN  /\ c.ok
        /\ retry = c.retry
        /\ paginate = c.paginate
        /\ timeout = c.timeout
        /\ event = c.event
        /\ pc = "idle"
        /\ mode = "none"
        /\ signal = "undefined"
        /\ attempt = 0
        /\ response = NoResponse
        /\ delayTime = Undefined
        /\ eventRetryPayload = NoPayload
        /\ error = "none"
        /\ calls = <<>>
        /\ waits = 0
        /\ emitted = 0
        /\ optionsResolve = c.paginate
        /\ page = 0
        /\ uri = NoUrl
        /\ uriLookUp = NoUrl
        /\ responses = <<>>
        /\ requested = <<>>
        /\ linkParsed = <<>>
        /\ errorUrl = NoUrl
        /\ fetchSignals = 0
        /\ paginateSignals = 0
        /\ other = NoOther
        /\ optionsOverride = NoPaginateOptions
        /\ overridden = FALSE

Init ==
    \E r \in RetryOptions, t \in TimeoutOptions, e \in BOOLEAN :
        InitWith([retry |-> r, paginate |-> NoPaginateOptions, timeout |-> t, event |-> e])

\* ------------------------------------------------------------- ExFetch.fetch
\* let signal = init?.signal ?? undefined; if (#timeout !== Infinity) signal ??= timeout
ResolveSignal(initSignal) ==
    IF initSignal # "undefined" THEN initSignal
    ELSE IF timeout # Infinity THEN "timeout" ELSE "undefined"

\* the AbortSignal.timeout calls that resolving the signal makes
TimeoutSignalsFor(initSignal) ==
    IF initSignal = "undefined" /\ timeout # Infinity THEN 1 ELSE 0

\* the loop over the two hint headers
HintStep(d, value) ==
    IF value.kind = "null" THEN d
    ELSE IF TestDigits(value) THEN NullishAssign(d, SecondsToMs(value))
    ELSE NullishAssign(d, DateParseMinusNow(value))

RetryHint(r) == HintStep(HintStep(Undefined, r.retryAfter), r.xRateLimitReset)

\* the exponentialBackoffWithJitter call of fetch, with the arguments it passes:
\* a is the loop's attempt counter, and the call passes this.#retry.attempts as
\* "attempt" instead
BackoffDelay(a) ==
    {Num(b) : b \in ExponentialBackoffWithJitter(retry.attempts, retry.delayMinimum,
                                                  retry.delayMaximum, retry.jitter,
                                                  retry.backoffMultiplier)}

\* delayTime ??= backoff; delayTime = Math.max(1000, delayTime)
DelayTimes(r, a) ==
    LET hint == RetryHint(r)
    IN  {MathMax(DelayFloor, d) : d \in IF hint = Undefined THEN BackoffDelay(a) ELSE {hint}}

\* a variant that takes every 4xx / 5xx status for a retryable one
ShouldBreakOnSuccessOnly(status) ==
    IF retry.condition # "undefined"
    THEN ~ConditionApply(retry.condition, status, status \in statusCodeRetryable)
    ELSE status < 400

\* a variant that ignores the custom condition
ShouldBreakStandardOnly(status) == status \notin statusCodeRetryable

\* the two break tests on the status
ShouldBreak(status) ==
    LET retryable == status \in statusCodeRetryable
    IN  IF retry.condition # "undefined"
        THEN ~ConditionApply(retry.condition, status, retryable)
        ELSE ~retryable

\* if (attempt >= this.#retry.attempts) break
AttemptsExhausted(a) == a >= retry.attempts

\* setTimeout's duration for delay(ms): NaN counts as 0
DelayDuration(d) == IF d.k = "NaN" THEN 0 ELSE d.v

\* entry of fetch up to its first await: fresh locals, the transport call pending
FetchEnter(initSignal) ==
    /\ signal' = ResolveSignal(initSignal)
    /\ fetchSignals' = fetchSignals + TimeoutSignalsFor(initSignal)
    /\ attempt' = 0
    /\ response' = NoResponse
    /\ delayTime' = Undefined
    /\ eventRetryPayload' = NoPayload
    /\ calls' = <<>>
    /\ waits' = 0
    /\ emitted' = 0
    /\ pc' = "transport"

CallFetch ==
    /\ pc = "idle"
    /\ \E initSignal \in {"undefined", "caller"} : FetchEnter(initSignal)
    /\ mode' = "fetch"
    /\ UNCHANGED <<instance, other, pagination, optionsOverride, error>>

\* a variant that throws for an error status
FetchReturnOrThrow ==
    /\ IF response'.status >= 400
       THEN pc' = "threw" /\ error' = "HTTPError"
       ELSE pc' = "returned" /\ error' = error
    /\ UNCHANGED <<attempt, delayTime, eventRetryPayload, waits, emitted>>

\* return response
FetchReturn ==
    /\ pc' = "returned"
    /\ UNCHANGED <<attempt, delayTime, eventRetryPayload, error, waits, emitted>>

\* compute the delay, emit the event, start the wait
FetchRetry(r) ==
    /\ \E d \in DelayTimes(r, attempt) : 
           /\ delayTime' = d
           /\ eventRetryPayload' = [attemptCurrent |-> attempt + 1, attempts |-> retry.attempts,
                                    retryAfter |-> d, statusCode |-> r.status]
    /\ emitted' = IF event THEN emitted + 1 ELSE emitted
    /\ waits' = waits + 1
    /\ pc' = "waiting"
    /\ UNCHANGED <<attempt, error>>

\* response = await fetch(...) resolves; the iteration runs up to its next await
TransportRespond ==
    /\ pc = "transport"
    /\ \E r \in Responses :
           /\ response' = r
           /\ calls' = Append(calls, r.status)
           /\ IF ShouldBreak(r.status) \/ AttemptsExhausted(attempt)
              THEN FetchReturn
              ELSE FetchRetry(r)
    /\ UNCHANGED <<instance, other, pagination, mode, optionsOverride, signal, fetchSignals>>

\* a variant that treats a transport error as one more retryable attempt
TransportThrowRetried ==
    /\ pc = "transport"
    /\ error' = "TransportError"
    /\ IF attempt < retry.attempts
       THEN pc' = "transport" /\ attempt' = attempt + 1
       ELSE pc' = "threw" /\ attempt' = attempt
    /\ calls' = Append(calls, 0)
    /\ UNCHANGED <<instance, other, pagination, mode, optionsOverride, signal, fetchSignals, response, delayTime,
                   eventRetryPayload, waits, emitted>>

\* await fetch(...) rejects with a transport error
TransportThrow ==
    /\ pc = "transport"
    /\ pc' = "threw"
    /\ error' = "TransportError"
    /\ UNCHANGED <<instance, other, pagination, mode, optionsOverride, signal, fetchSignals, attempt, response, delayTime,
                   eventRetryPayload, calls, waits, emitted>>

\* the signal aborts while the transport call is pending
TransportAbort ==
    /\ pc = "transport"
    /\ signal # "undefined"
    /\ pc' = "threw"
    /\ error' = "AbortError"
    /\ UNCHANGED <<instance, other, pagination, mode, optionsOverride, signal, fetchSignals, attempt, response, delayTime,
                   eventRetryPayload, calls, waits, emitted>>

\* await delay(delayTime, { signal }) resolves; attempt += 1; while (attempt <= attempts)
DelayDone ==
    /\ pc = "waiting"
    /\ attempt' = attempt + 1
    /\ delayTime' = Undefined
    /\ eventRetryPayload' = NoPayload
    /\ IF attempt + 1 <= retry.attempts
       THEN pc' = "transport"
       ELSE pc' = "returned"
    /\ UNCHANGED <<instance, other, pagination, mode, optionsOverride, signal, fetchSignals, response, error, calls, waits,
                   emitted>>

\* the signal aborts during the wait
DelayAbort ==
    /\ pc = "waiting"
    /\ signal # "undefined"
    /\ pc' = "threw"
    /\ error' = "AbortError"
    /\ UNCHANGED <<instance, other, pagination, mode, optionsOverride, signal, fetchSignals, attempt, response, delayTime,
                   eventRetryPayload, calls, waits, emitted>>

\* ------------------------------------------------------ ExFetch.fetchPaginate
\* a variant that takes every response for a success
OkAlways(status) == status >= 0

\* response.ok
Ok(status) == status >= 200 /\ status <= 299

\* what HTTPHeaderLink.parse(response) may give: a parse error, a link header
\* without a "next" relation, or one whose "next" relation names a URL
LinkHeaders == {[kind |-> "malformed", next |-> NoUrl], [kind |-> "none", next |-> NoUrl]}
               \cup {[kind |-> "next", next |-> u] : u \in Urls}

\* what a custom linkUpNextPage may return
LinkUpResults == Urls \cup {NoUrl}

\* a variant that swallows the parse error of a malformed header
NextPageOutcomesLenient(link, linkUpNextPage) ==
    IF link.kind = "malformed" THEN {[threw |-> FALSE, uri |-> NoUrl]}
    ELSE IF linkUpNextPage # "undefined"
    THEN {[threw |-> FALSE, uri |-> u] : u \in LinkUpResults}
    ELSE IF link.kind = "none" THEN {[threw |-> TRUE, uri |-> NoUrl]}
    ELSE {[threw |-> FALSE, uri |-> link.next]}

\* the try block: threw is TRUE when it throws, else uri is the value assigned
NextPageOutcomes(link, linkUpNextPage) ==
    IF link.kind = "malformed" THEN {[threw |-> TRUE, uri |-> NoUrl]}
    ELSE IF linkUpNextPage # "undefined"
    THEN {[threw |-> FALSE, uri |-> u] : u \in LinkUpResults}
    ELSE IF link.kind = "none" THEN {[threw |-> TRUE, uri |-> NoUrl]}
    ELSE {[threw |-> FALSE, uri |-> link.next]}

\* a variant whose page test is off by one
PageLoopTestOffByOne(p, u, count) ==
    /\ count = Infinity \/ p <= count.v + 1
    /\ u # NoUrl

\* the for statement's test
PageLoopTest(p, u, count) ==
    /\ count = Infinity \/ p <= count.v
    /\ u # NoUrl

\* a variant that calls this.fetch without the signal fetchPaginate derived
PageEnterFreshSignal(p, u, pause, sig) ==
    IF p > 1 /\ pause > 0
    THEN /\ pc' = "pause"
         /\ uriLookUp' = uriLookUp
         /\ uri' = u
         /\ requested' = requested
         /\ signal' = sig
         /\ UNCHANGED <<fetchSignals, attempt, response, delayTime, eventRetryPayload,
                         calls, waits, emitted>>
    ELSE /\ uriLookUp' = u
         /\ uri' = NoUrl
         /\ requested' = Append(requested, u)
         /\ FetchEnter(IF sig = "timeout" THEN "undefined" ELSE sig)

\* the loop body up to its first await for page p and URL u: the pause, or the fetch
\* sig is fetchPaginate's signal, which it passes to this.fetch as init.signal
PageEnter(p, u, pause, sig) ==
    IF p > 1 /\ pause > 0
    THEN /\ pc' = "pause"
         /\ uriLookUp' = uriLookUp
         /\ uri' = u
         /\ requested' = requested
         /\ signal' = sig
         /\ UNCHANGED <<fetchSignals, attempt, response, delayTime, eventRetryPayload, calls, waits,
                         emitted>>
    ELSE /\ uriLookUp' = u
         /\ uri' = NoUrl
         /\ requested' = Append(requested, u)
         /\ FetchEnter(sig)

\* a variant that stores the merged options of the call in this.#paginate
CallFetchPaginateStoring ==
    /\ pc = "idle"
    /\ mode' = "paginate"
    /\ \E given \in OverrideOptions, initSignal \in {"undefined", "caller"} :
           /\ optionsOverride' = given
           /\ IF ~checkPaginateOptions(given)
              THEN /\ pc' = "threw"
                   /\ error' = "RangeError"
                   /\ UNCHANGED <<pagination, signal, fetchSignals, attempt, response,
                                  delayTime, eventRetryPayload, calls, waits, emitted>>
              ELSE /\ optionsResolve' = SpreadPaginate(paginate, given)
                   /\ responses' = <<>>
                   /\ page' = 1
                   /\ error' = error
                   /\ paginateSignals' = TimeoutSignalsFor(initSignal)
                   /\ UNCHANGED <<linkParsed, errorUrl, overridden>>
                   /\ IF PageLoopTest(1, FirstUrl, optionsResolve'.count)
                      THEN PageEnter(1, FirstUrl, optionsResolve'.pause,
                                     ResolveSignal(initSignal))
                      ELSE /\ pc' = "paginateReturned"
                           /\ signal' = ResolveSignal(initSignal)
                           /\ UNCHANGED <<fetchSignals, uri, uriLookUp, requested, attempt, response,
                                          delayTime, eventRetryPayload, calls, waits, emitted>>
    /\ paginate' = optionsResolve'
    /\ UNCHANGED <<retry, timeout, event, other>>

\* entry of fetchPaginate up to its first await
CallFetchPaginate ==
    /\ pc = "idle"
    /\ mode' = "paginate"
    /\ \E given \in OverrideOptions, initSignal \in {"undefined", "caller"} :
           /\ optionsOverride' = given
           /\ IF ~checkPaginateOptions(given)
              THEN /\ pc' = "threw"
                   /\ error' = "RangeError"
                   /\ UNCHANGED <<pagination, signal, fetchSignals, attempt, response,
                                  delayTime, eventRetryPayload, calls, waits, emitted>>
              ELSE /\ optionsResolve' = SpreadPaginate(paginate, given)
                   /\ responses' = <<>>
                   /\ page' = 1
                   /\ error' = error
                   /\ paginateSignals' = TimeoutSignalsFor(initSignal)
                   /\ UNCHANGED <<linkParsed, errorUrl, overridden>>
                   /\ IF PageLoopTest(1, FirstUrl, optionsResolve'.count)
                      THEN PageEnter(1, FirstUrl, optionsResolve'.pause,
                                     ResolveSignal(initSignal))
                      ELSE /\ pc' = "paginateReturned"
                           /\ signal' = ResolveSignal(initSignal)
                           /\ UNCHANGED <<fetchSignals, uri, uriLookUp, requested, attempt, response,
                                          delayTime, eventRetryPayload, calls, waits, emitted>>
    /\ UNCHANGED <<instance, other>>

\* a variant whose for statement has no page += 1
PageFetchedSamePage ==
    /\ pc = "returned"
    /\ mode = "paginate"
    /\ responses' = Append(responses, [url |-> uriLookUp, status |-> response.status])
    /\ \E link \in LinkHeaders :
       \E o \in IF Ok(response.status)
                THEN NextPageOutcomes(link, optionsResolve.linkUpNextPage)
                ELSE {[threw |-> FALSE, uri |-> uri]} :
        /\ linkParsed' = IF Ok(response.status)
                     THEN Append(linkParsed, [url |-> uriLookUp, kind |-> link.kind])
                     ELSE linkParsed
        /\ IF o.threw /\ optionsResolve.throwOnInvalidHeaderLink
           THEN /\ pc' = "threw"
                /\ error' = "SyntaxError"
                /\ errorUrl' = uriLookUp
                /\ UNCHANGED <<page, uri, uriLookUp, requested, signal, fetchSignals,
                               attempt, response, delayTime, eventRetryPayload, calls,
                               waits, emitted>>
           ELSE /\ page' = page
                /\ error' = error
                /\ errorUrl' = errorUrl
                /\ IF PageLoopTest(page, o.uri, optionsResolve.count)
                   THEN /\ Len(responses) + 1 <= MaxPage
                        /\ PageEnter(page + 1, o.uri, optionsResolve.pause, signal)
                   ELSE /\ pc' = "paginateReturned"
                        /\ uri' = o.uri
                        /\ UNCHANGED <<uriLookUp, requested, signal, fetchSignals, attempt,
                                       response, delayTime, eventRetryPayload, calls,
                                       waits, emitted>>
    /\ UNCHANGED <<instance, other, mode, optionsOverride, optionsResolve, paginateSignals,
                   overridden>>

\* await this.fetch(...) resolved: push, find the next URL, page += 1, loop test
PageFetched ==
    /\ pc = "returned"
    /\ mode = "paginate"
    /\ responses' = Append(responses, [url |-> uriLookUp, status |-> response.status])
    /\ \E link \in LinkHeaders :
       \E o \in IF Ok(response.status)
                THEN NextPageOutcomes(link, optionsResolve.linkUpNextPage)
                ELSE {[threw |-> FALSE, uri |-> uri]} :
        /\ linkParsed' = IF Ok(response.status)
                     THEN Append(linkParsed, [url |-> uriLookUp, kind |-> link.kind])
                     ELSE linkParsed
        /\ IF o.threw /\ optionsResolve.throwOnInvalidHeaderLink
           THEN /\ pc' = "threw"
                /\ error' = "SyntaxError"
                /\ errorUrl' = uriLookUp
                /\ UNCHANGED <<page, uri, uriLookUp, requested, signal, fetchSignals,
                               attempt, response, delayTime, eventRetryPayload, calls,
                               waits, emitted>>
           ELSE /\ page' = page + 1
                /\ error' = error
                /\ errorUrl' = errorUrl
                /\ IF PageLoopTest(page + 1, o.uri, optionsResolve.count)
                   THEN /\ page + 1 <= MaxPage
                        /\ PageEnter(page + 1, o.uri, optionsResolve.pause, signal)
                   ELSE /\ pc' = "paginateReturned"
                        /\ uri' = o.uri
                        /\ UNCHANGED <<uriLookUp, requested, signal, fetchSignals, attempt,
                                       response, delayTime, eventRetryPayload, calls,
                                       waits, emitted>>
    /\ UNCHANGED <<instance, other, mode, optionsOverride, optionsResolve, paginateSignals,
                   overridden>>

\* await delay(optionsResolve.pause, { signal }) resolves; the fetch of the page starts
PauseDone ==
    /\ pc = "pause"
    /\ uriLookUp' = uri
    /\ uri' = NoUrl
    /\ requested' = Append(requested, uri)
    /\ FetchEnter(signal)
    /\ UNCHANGED <<instance, other, mode, optionsOverride, error, optionsResolve, page,
                   responses, linkParsed, errorUrl, paginateSignals, overridden>>

\* a variant in which an abort during the pause returns the pages fetched so far
PauseAbortReturnsPages ==
    /\ pc = "pause"
    /\ signal # "undefined"
    /\ pc' = "paginateReturned"
    /\ error' = "AbortError"
    /\ UNCHANGED <<instance, other, pagination, mode, optionsOverride, signal, fetchSignals, attempt, response,
                   delayTime, eventRetryPayload, calls, waits, emitted>>

\* the signal aborts during the pause
PauseAbort ==
    /\ pc = "pause"
    /\ signal # "undefined"
    /\ pc' = "threw"
    /\ error' = "AbortError"
    /\ UNCHANGED <<instance, other, pagination, mode, optionsOverride, signal, fetchSignals, attempt, response, delayTime,
                   eventRetryPayload, calls, waits, emitted>>

\* ------------------------------------- a second call on the same instance
\* the locals of the first call: everything but the instance and the second call
firstCall == <<pc, mode, optionsOverride, signal, attempt, response, delayTime, eventRetryPayload, error,
               calls, waits, emitted, pagination, fetchSignals>>

\* fetch is called again while the first call is suspended
OtherCallFetch ==
    /\ other.pc = "idle"
    /\ pc \in {"transport", "waiting", "pause"}
    /\ other' = [NoOther EXCEPT !.pc = "transport"]
    /\ UNCHANGED <<instance, firstCall>>

\* the second call's await fetch(...) resolves; its iteration runs to the next await
OtherTransportRespond ==
    /\ other.pc = "transport"
    /\ \E r \in Responses :
           IF ShouldBreak(r.status) \/ AttemptsExhausted(other.attempt)
           THEN other' = [other EXCEPT !.pc = "returned", !.status = r.status,
                                       !.calls = Append(@, r.status)]
           ELSE \E d \in DelayTimes(r, other.attempt) :
                    other' = [other EXCEPT !.pc = "waiting", !.status = r.status,
                                           !.calls = Append(@, r.status),
                                           !.delayTime = d]
    /\ UNCHANGED <<instance, firstCall>>

\* a variant in which the attempt counter is a field shared by the calls
OtherDelayDoneShared ==
    /\ other.pc = "waiting"
    /\ attempt' = attempt + 1
    /\ other' = [other EXCEPT !.pc = "transport", !.attempt = attempt + 1,
                               !.delayTime = Undefined]
    /\ UNCHANGED <<instance, pc, mode, optionsOverride, signal, response, delayTime, eventRetryPayload,
                   error, calls, waits, emitted, pagination, fetchSignals>>

\* the second call's await delay(...) resolves; attempt += 1
OtherDelayDone ==
    /\ other.pc = "waiting"
    /\ other' = [other EXCEPT !.pc = IF other.attempt + 1 <= retry.attempts
                                     THEN "transport" ELSE "returned",
                               !.attempt = @ + 1,
                               !.delayTime = Undefined]
    /\ UNCHANGED <<instance, firstCall>>

\* ------------------------------------------- calls one after the other
\* the promise of the call settled: its locals are gone, the instance can be called
\* again
CallSettled ==
    /\ \/ pc \in {"paginateReturned", "threw"}
       \/ pc = "returned" /\ mode = "fetch"
    /\ overridden' = (overridden \/ optionsOverride # NoPaginateOptions)
    /\ pc' = "idle"
    /\ mode' = "none"
    /\ optionsOverride' = NoPaginateOptions
    /\ signal' = "undefined"
    /\ attempt' = 0
    /\ response' = NoResponse
    /\ delayTime' = Undefined
    /\ eventRetryPayload' = NoPayload
    /\ error' = "none"
    /\ calls' = <<>>
    /\ waits' = 0
    /\ emitted' = 0
    /\ optionsResolve' = paginate
    /\ page' = 0
    /\ uri' = NoUrl
    /\ uriLookUp' = NoUrl
    /\ responses' = <<>>
    /\ requested' = <<>>
    /\ linkParsed' = <<>>
    /\ errorUrl' = NoUrl
    /\ fetchSignals' = 0
    /\ paginateSignals' = 0
    /\ UNCHANGED <<instance, other>>

Next ==
    \/ CallFetch
    \/ TransportRespond
    \/ TransportThrow
    \/ TransportAbort
    \/ DelayDone
    \/ DelayAbort

Spec == Init /\ [][Next]_vars

\* the instance and the calls of the pagination runs
InitPaginate ==
    \E a \in PaginateAttemptsOptions, p \in PaginateOptions, t \in TimeoutOptions :
        InitWith([retry |-> [attempts |-> a, backoffMultiplier |-> Undefined,
                             condition |-> "undefined", delayMaximum |-> Undefined,
                             delayMinimum |-> Undefined, jitter |-> Num(0)],
                  paginate |-> p, timeout |-> t, event |-> TRUE])

NextPaginate ==
    \/ CallFetchPaginate
    \/ TransportRespond
    \/ TransportThrow
    \/ TransportAbort
    \/ DelayDone
    \/ DelayAbort
    \/ PageFetched
    \/ PauseDone
    \/ PauseAbort

SpecPaginate == InitPaginate /\ [][NextPaginate]_vars

\* fetchPaginate called again and again on one instance
InitReuse ==
    \E p \in PaginateOptions :
        InitWith([retry |-> [attempts |-> Num(1), backoffMultiplier |-> Undefined,
                             condition |-> "undefined", delayMaximum |-> Undefined,
                             delayMinimum |-> Undefined, jitter |-> Num(0)],
                  paginate |-> p, timeout |-> Undefined, event |-> TRUE])

NextReuse ==
    \/ CallFetchPaginate
    \/ TransportRespond
    \/ TransportThrow
    \/ TransportAbort
    \/ DelayDone
    \/ DelayAbort
    \/ PageFetched
    \/ PauseDone
    \/ PauseAbort
    \/ CallSettled

SpecReuse == InitReuse /\ [][NextReuse]_vars

\* one call of fetch or fetchPaginate whose awaits all settle, on an instance with
\* a finite number of attempts and a finite page count
InitLive ==
    \E a \in AttemptsOptions, p \in {o \in PaginateOptions : o.count # Undefined} :
        InitWith([retry |-> [attempts |-> a, backoffMultiplier |-> Undefined,
                             condition |-> "undefined", delayMaximum |-> Undefined,
                             delayMinimum |-> Undefined, jitter |-> Num(0)],
                  paginate |-> p, timeout |-> Undefined, event |-> TRUE])

NextLive ==
    \/ CallFetch
    \/ CallFetchPaginate
    \/ TransportRespond
    \/ TransportThrow
    \/ TransportAbort
    \/ DelayDone
    \/ DelayAbort
    \/ PageFetched
    \/ PauseDone
    \/ PauseAbort

\* every pending await settles, one way or the other, and the code after it runs;
\* nothing obliges the caller to make a call
SpecLive ==
    /\ InitLive
    /\ [][NextLive]_vars
    /\ WF_vars(TransportRespond \/ TransportThrow \/ TransportAbort)
    /\ WF_vars(DelayDone \/ DelayAbort)
    /\ WF_vars(PauseDone \/ PauseAbort)
    /\ WF_vars(PageFetched)

\* two calls interleaved on one instance
InitConcurrent ==
    \E t \in TimeoutOptions :
        InitWith([retry |-> [attempts |-> Num(1), backoffMultiplier |-> Undefined,
                             condition |-> "undefined", delayMaximum |-> Undefined,
                             delayMinimum |-> Undefined, jitter |-> Num(0)],
                  paginate |-> [NoPaginateOptions EXCEPT !.count = Num(2),
                                                         !.pause = Num(10)],
                  timeout |-> t, event |-> TRUE])

NextConcurrent ==
    \/ CallFetch
    \/ CallFetchPaginate
    \/ TransportRespond
    \/ TransportThrow
    \/ TransportAbort
    \/ DelayDone
    \/ DelayAbort
    \/ PageFetched
    \/ PauseDone
    \/ PauseAbort
    \/ OtherCallFetch
    \/ OtherTransportRespond
    \/ OtherDelayDone

SpecConcurrent == InitConcurrent /\ [][NextConcurrent]_vars

\* ------------------------------------------------------------------ claims
Last(q) == q[Len(q)]

\* C1: with retry.attempts = N >= 1, one call of fetch issues at most N
\* transport calls.
C1_AtMostAttemptsCalls == retry.attempts >= 1 => Len(calls) <= retry.attempts

\* C2: with no custom condition fetch stops at the first response whose status
\* is outside {408, 429, 500, 502, 503, 504, 506, 507, 508}: every response
\* before the last one was retryable, a non-retryable response is the one
\* returned with no wait and no event after it, and a run of fewer than
\* retry.attempts retryable responses does not end the call.
C2_StopsAtFirstNonRetryable ==
    LET standard == {408, 429, 500, 502, 503, 504, 506, 507, 508}
    IN  retry.condition = "undefined" =>
            /\ \A i \in 1..(Len(calls) - 1) : calls[i] \in standard
            /\ (calls # <<>> /\ Last(calls) \notin standard) =>
                   /\ pc = "returned"
                   /\ error = "none"
                   /\ response.status = Last(calls)
                   /\ waits = Len(calls) - 1
                   /\ emitted = (IF event THEN Len(calls) - 1 ELSE 0)
            /\ (pc = "returned" /\ Last(calls) \in standard) => Len(calls) >= retry.attempts

C2_Witness ==
    /\ retry.condition = "undefined"
    /\ retry.attempts = 2
    /\ pc = "returned"
    /\ calls = <<500, 404>>

\* C3: with a custom condition the retry decision for every response is the
\* condition's result for (status, isStandardRetryable): the response is
\* returned at once when the condition is false, whatever its status, and is
\* retried when the condition is true and attempts remain.
C3_ConditionDecides ==
    LET holds(status) == ConditionApply(retry.condition, status,
                                        status \in {408, 429, 500, 502, 503, 504, 506, 507, 508})
    IN  (retry.condition # "undefined" /\ calls # <<>>) =>
            /\ \A i \in 1..(Len(calls) - 1) : holds(calls[i])
            /\ pc = "waiting" => holds(Last(calls))
            /\ ~holds(Last(calls)) => pc = "returned" /\ response.status = Last(calls)
            /\ (pc = "returned" /\ holds(Last(calls))) => attempt >= retry.attempts

C3_Witness ==
    /\ retry.condition = "inverse"
    /\ retry.attempts = 2
    /\ pc = "returned"
    /\ calls = <<200, 500>>

\* C4: fetch never ends in an error because of an HTTP status: a call that
\* threw did so for a transport error or a cancellation, and a call that
\* returned gave back the last response the transport answered.
C4_StatusIsNeverAnError ==
    /\ pc = "threw" => error \in {"TransportError", "AbortError"}
    /\ pc = "returned" =>
           /\ error = "none"
           /\ calls # <<>>
           /\ response.status = Last(calls)

C4_Witness ==
    /\ pc = "returned"
    /\ retry.attempts = 2
    /\ calls = <<500, 500, 500>>
    /\ response.status = 500

\* C5: a transport exception ends the call with that error at once: the call
\* is over in the step that raises it and no transport call, wait or retry
\* event follows.
C5_TransportErrorAborts ==
    [][/\ error' = "TransportError" => pc' = "threw"
       /\ error = "TransportError" =>
              /\ pc' = "threw"
              /\ calls' = calls
              /\ waits' = waits
              /\ emitted' = emitted]_vars

C5_Witness ==
    /\ pc = "threw"
    /\ error = "TransportError"
    /\ retry.attempts = 2
    /\ attempt = 1
    /\ calls = <<500>>

\* the hint as C6 describes it: the first header, in order, whose value parses
\* as a number of seconds or as a timestamp
C6_FirstParsedHint(r) ==
    LET parsed(value) == IF value.kind = "digits" THEN Num(value.n * 1000)
                         ELSE IF value.kind = "date" THEN Num(value.n - Now)
                         ELSE Undefined
    IN  IF parsed(r.retryAfter) # Undefined THEN parsed(r.retryAfter)
        ELSE parsed(r.xRateLimitReset)

\* C6: a hint header whose value cannot be parsed is skipped and the next
\* header is tried; when no header parses, the wait uses the backoff result.
C6_UnparsableHintSkipped ==
    pc = "waiting" =>
        LET hint == C6_FirstParsedHint(response)
        IN  IF hint = Undefined
            THEN delayTime \in {MathMax(DelayFloor, b) : b \in BackoffDelay(attempt)}
            ELSE delayTime = MathMax(DelayFloor, hint)

\* C7: every wait between two attempts lasts at least 1000 ms and the event's
\* retryAfter is that same value.
C7_WaitAtLeastFloor ==
    pc = "waiting" =>
        /\ delayTime.k = "number"
        /\ delayTime.v >= 1000
        /\ DelayDuration(delayTime) >= 1000
        /\ eventRetryPayload.retryAfter = delayTime

\* C8: with no retry hint the delay waited lies in [1000, delayMaximum].
C8_BackoffWithinBounds ==
    (pc = "waiting" /\ response.retryAfter = Null /\ response.xRateLimitReset = Null) =>
        /\ delayTime.k = "number"
        /\ delayTime.v >= 1000
        /\ delayTime.v <= retry.delayMaximum

\* C9: with jitter 0, backoffMultiplier > 1 and no hint, the delay before
\* retry k is min(delayMaximum, delayMinimum * backoffMultiplier^k) for the
\* current attempt k (raised to the 1000 ms floor of the wait).
C9_BackoffFollowsAttempt ==
    (/\ pc = "waiting"
     /\ retry.jitter = 0
     /\ retry.backoffMultiplier > 1
     /\ response.retryAfter = Null
     /\ response.xRateLimitReset = Null) =>
        delayTime = Num(Max(1000, Min(retry.delayMaximum,
                                      retry.delayMinimum * Pow(retry.backoffMultiplier, attempt))))

\* C10: the accumulated response list of fetchPaginate never has more than
\* count entries, and holds one entry per page requested, in request order.
C10_ResponsesBoundedAndOrdered ==
    /\ optionsResolve.count.k = "number" => Len(responses) <= optionsResolve.count.v
    /\ Len(responses) <= Len(requested)
    /\ Len(requested) <= Len(responses) + 1
    /\ \A i \in 1..Len(responses) : responses[i].url = requested[i]
    /\ pc = "paginateReturned" => Len(responses) = Len(requested)

C10_Witness ==
    /\ pc = "paginateReturned"
    /\ optionsResolve.count = Num(2)
    /\ Len(responses) = 2
    /\ uri # NoUrl

\* C11: once the number of pages fetched reaches count, fetchPaginate has
\* returned exactly count responses without error, whatever the link metadata
\* of that last page (a next link available, absent or malformed).
C11_StopsAtCountWhateverTheLink ==
    (/\ mode = "paginate"
     /\ optionsResolve.count.k = "number"
     /\ Len(responses) = optionsResolve.count.v) =>
        /\ pc = "paginateReturned"
        /\ error = "none"

\* C12: when the link metadata of a successful page has no next relation (the
\* chain ends) and no custom resolver is set, fetchPaginate stops normally and
\* returns the pages fetched so far, without raising.
C12_ChainEndStopsNormally ==
    (/\ optionsResolve.linkUpNextPage = "undefined"
     /\ linkParsed # <<>>
     /\ Last(linkParsed).kind = "none") =>
        /\ pc = "paginateReturned"
        /\ error = "none"
        /\ Len(responses) = Len(requested)

\* C13: a response that is not a success status is the last element of the
\* sequence: fetchPaginate has returned with it, no link header was parsed for
\* it (one parse per success response, none else) and no fetch follows it.
C13_NonSuccessStops ==
    LET success(i) == responses[i].status >= 200 /\ responses[i].status <= 299
    IN  /\ Len(linkParsed) = Cardinality({i \in 1..Len(responses) : success(i)})
        /\ \A i \in 1..Len(responses) :
               ~success(i) =>
                   /\ i = Len(responses)
                   /\ pc = "paginateReturned"
                   /\ error = "none"
                   /\ Len(requested) = Len(responses)

C13_Witness ==
    /\ pc = "paginateReturned"
    /\ optionsResolve.count = Infinity
    /\ Len(responses) = 2
    /\ responses[2].status = 404
    /\ Len(linkParsed) = 1

\* C14: when a successful page has a malformed link header, fetchPaginate ends
\* with a SyntaxError naming that page's URL if throwOnInvalidHeaderLink is
\* true, and otherwise returns the pages fetched so far, that page included,
\* without error and without a further fetch.
C14_MalformedLinkHeader ==
    (linkParsed # <<>> /\ Last(linkParsed).kind = "malformed") =>
        IF optionsResolve.throwOnInvalidHeaderLink
        THEN /\ pc = "threw"
             /\ error = "SyntaxError"
             /\ errorUrl = Last(linkParsed).url
             /\ errorUrl = Last(requested)
        ELSE /\ pc = "paginateReturned"
             /\ error = "none"
             /\ Last(responses).url = Last(linkParsed).url
             /\ Len(requested) = Len(responses)

C14_Witness ==
    /\ pc = "paginateReturned"
    /\ ~optionsResolve.throwOnInvalidHeaderLink
    /\ Len(responses) = 2
    /\ linkParsed # <<>>
    /\ Last(linkParsed).kind = "malformed"

\* C15: a cancellation at a suspension point (transport call, retry wait,
\* inter-page pause) ends the whole call with the cancellation error: the
\* call is over in that step, it returns neither a response nor a partial
\* sequence, and no attempt or page follows.
C15_CancellationAborts ==
    [][/\ error' = "AbortError" =>
              /\ pc' = "threw"
              /\ signal # "undefined"
              /\ pc \in {"transport", "waiting", "pause"}
       /\ error = "AbortError" =>
              /\ pc' = "threw"
              /\ calls' = calls
              /\ waits' = waits
              /\ responses' = responses
              /\ requested' = requested]_vars

C15_Witness ==
    /\ pc = "threw"
    /\ error = "AbortError"
    /\ mode = "paginate"
    /\ Len(responses) = 1
    /\ Len(requested) = 1
    /\ uri # NoUrl

\* C16: one top-level call has one cancellation signal for all its attempts,
\* waits and pages: the caller's signal when one is supplied (the timeout then
\* creates none), else one time-bounded signal created once when a timeout is
\* configured, which the per-page fetch calls reuse.
C16_OneSignalPerCall ==
    /\ [](/\ fetchSignals + paginateSignals <= 1
          /\ signal = "caller" => fetchSignals + paginateSignals = 0
          /\ signal = "timeout" => fetchSignals + paginateSignals = 1
          /\ (mode = "paginate" /\ signal = "timeout") => paginateSignals = 1
          /\ (timeout # Infinity /\ pc \in {"transport", "waiting", "pause", "returned"}) =>
                 signal # "undefined")
    /\ [][pc # "idle" => signal' = signal]_vars

C16_Witness ==
    /\ mode = "paginate"
    /\ pc = "waiting"
    /\ Len(requested) = 2
    /\ signal = "timeout"
    /\ paginateSignals = 1
    /\ fetchSignals = 0

\* C17: calls interleaved on one instance do not interfere: no step writes the
\* instance's policy fields, a step of one call leaves the other call's
\* attempt counter, delay and responses alone, and each call's attempt counter
\* is the number of its own waits that completed, as when it runs alone.
C17_CallsDoNotInterfere ==
    /\ [][/\ UNCHANGED instance
          /\ other' # other => UNCHANGED firstCall
          /\ firstCall' # firstCall => other' = other]_vars
    /\ [](/\ pc = "transport" => attempt = Len(calls)
          /\ pc = "waiting" => attempt = Len(calls) - 1
          /\ other.pc = "transport" => other.attempt = Len(other.calls)
          /\ other.pc = "waiting" => other.attempt = Len(other.calls) - 1)

C17_Witness ==
    /\ mode = "paginate"
    /\ pc = "waiting"
    /\ Len(responses) = 1
    /\ attempt = 0
    /\ other.pc = "transport"
    /\ other.attempt = 1

\* C18: every instance whose construction succeeds holds a retry policy with
\* delayMinimum < delayMaximum, whichever of the two options were supplied.
C18_DelayMinimumBelowMaximum == retry.delayMinimum < retry.delayMaximum

\* C19: a pagination override given to one fetchPaginate call governs that call
\* only: the call runs under the instance's pagination options with the override's
\* fields on top, the instance's own options are never written, and a call without
\* an override, also one made after a call with an override, runs under the options
\* the constructor stored.
C19_OverrideIsPerCall ==
    /\ [][UNCHANGED <<paginate, retry>>]_vars
    /\ [](/\ checkPaginateOptions(optionsOverride) =>
                 optionsResolve = SpreadPaginate(paginate, optionsOverride)
          /\ optionsOverride = NoPaginateOptions => optionsResolve = paginate
          /\ (mode = "paginate" /\ optionsResolve.count # Infinity) =>
                 Len(responses) <= optionsResolve.count.v)

C19_Witness ==
    /\ overridden
    /\ mode = "paginate"
    /\ pc = "paginateReturned"
    /\ optionsOverride = NoPaginateOptions
    /\ paginate.count = Num(2)
    /\ Len(responses) = 2

\* C20: within one fetch call a retry event is emitted exactly once before each wait
\* and never otherwise: while the k-th wait runs k transport calls, k waits and (with
\* a sink) k events have happened, the last event carrying attemptCurrent = k, the
\* status of the k-th response and a retryAfter equal to the time the wait lasts;
\* when the call returns, the events number the transport calls minus 1, and the
\* waits do so with or without a sink.
C20_OneEventBeforeEachWait ==
    /\ pc = "waiting" =>
           /\ waits = Len(calls)
           /\ emitted = IF event THEN Len(calls) ELSE 0
           /\ eventRetryPayload.attemptCurrent = Len(calls)
           /\ eventRetryPayload.statusCode = Last(calls)
           /\ eventRetryPayload.retryAfter = Num(DelayDuration(delayTime))
    /\ pc = "transport" =>
           /\ waits = Len(calls)
           /\ emitted = IF event THEN Len(calls) ELSE 0
    /\ pc = "returned" =>
           /\ waits = Len(calls) - 1
           /\ emitted = IF event THEN Len(calls) - 1 ELSE 0

\* C21: both loops terminate. Every retry of fetch raises attempt by one and keeps
\* it within retry.attempts, and once its awaits settle a fetch that has started
\* returns or throws; with a finite count every further page of fetchPaginate raises
\* page by one and keeps it within the count, and the call returns or throws, also
\* when the next links lead back to a page already fetched.
C21_BothLoopsTerminate ==
    /\ [][(pc = "waiting" /\ pc' = "transport") =>
              (attempt' = attempt + 1 /\ attempt' <= retry.attempts)]_vars
    /\ [][(/\ mode = "paginate" /\ pc = "returned" /\ pc' \in {"transport", "pause"}
           /\ optionsResolve.count # Infinity) =>
              (page' = page + 1 /\ page' <= optionsResolve.count.v)]_vars
    /\ (pc \in {"transport", "waiting"}) ~> (pc \in {"returned", "threw"})
    /\ (mode = "paginate" /\ optionsResolve.count # Infinity) ~>
           (pc \in {"paginateReturned", "threw"})

C21_Witness ==
    /\ mode = "paginate"
    /\ pc = "paginateReturned"
    /\ optionsResolve.count = Num(2)
    /\ requested = <<FirstUrl, FirstUrl>>
    /\ Len(responses) = 2
    /\ Len(calls) = 2
====
